---- MODULE Spec2Model ----
(***************************************************************************)
(* Model of the Windows prefetch parser (prefetch.py): the lazily          *)
(* evaluated, dependency-ordered section properties of class Prefetch,     *)
(* the eight section decoders with their cursor discipline, and            *)
(* create_stream's probe-then-decompress front end.                        *)
(*                                                                         *)
(* The byte source is a sequence of bytes (0..255) with a cursor.  The     *)
(* record layouts of structures.prefetch are a supplied schema; the model  *)
(* uses a miniature schema with one-byte integer fields, so that whole     *)
(* artifacts stay a few dozen bytes long.  Int16ul and the UTF-16 runs of  *)
(* the directory strings are kept at their real widths.                    *)
(***************************************************************************)
EXTENDS Integers, Sequences, FiniteSets, TLC

\* ------------------------------------------------------------------ bounds
MaxEntries == 2
MaxVolumes == 2
MaxStrings == 2
MaxDecodes == 3

\* ------------------------------------------------------------ small helpers
Min(a, b) == IF a <= b THEN a ELSE b
Max(a, b) == IF a >= b THEN a ELSE b

\* Python None / a present value, as sequences of length 0 / 1
None == <<>>
Some(x) == <<x>>

Range(s) == {s[i] : i \in 1..Len(s)}

\* ---------------------------------------------------- section registrations
Sections ==
  {"header", "file_info", "file_metrics", "filename_strings", "trace_chains",
   "volumes_info", "file_references", "directory_strings"}

\* A registration that forgets file_info among the dependencies of trace_chains
DepsWithoutFileInfo ==
  [header |-> <<>>,
   file_info |-> <<"header">>,
   file_metrics |-> <<"header">>,
   filename_strings |-> <<"header", "file_info", "file_metrics">>,
   trace_chains |-> <<"header">>,
   volumes_info |-> <<"header", "file_info">>,
   file_references |-> <<"file_info", "volumes_info">>,
   directory_strings |-> <<"file_info", "volumes_info">>]

\* StructureProperty(..., deps=[...]): the declared dependencies, in order
Deps ==
  [header |-> <<>>,
   file_info |-> <<"header">>,
   file_metrics |-> <<"header">>,
   filename_strings |-> <<"header", "file_info", "file_metrics">>,
   trace_chains |-> <<"header", "file_info">>,
   volumes_info |-> <<"header", "file_info">>,
   file_references |-> <<"file_info", "volumes_info">>,
   directory_strings |-> <<"file_info", "volumes_info">>]

\* ------------------------------------------------------------ byte source
\* stream.seek(p)
Seek(st, p) == [st EXCEPT !.pos = p]

\* stream.read(n): a short read returns what is left and raises nothing
Read(st, n) ==
  LET len == Len(st.data)
      end == Min(st.pos + n, len)
  IN  [st    |-> [st EXCEPT !.pos = Max(st.pos, end)],
       bytes |-> IF st.pos >= len THEN <<>> ELSE SubSeq(st.data, st.pos + 1, end)]

\* construct's stream read of a fixed-size field: fails on a short read
ReadExact(st, n) ==
  LET r == Read(st, n)
  IN  [st |-> r.st, ok |-> Len(r.bytes) = n, bytes |-> r.bytes]

\* ------------------------------------------------ miniature layout schema
TagXP == 17
TagSEVEN == 23
TagEIGHT == 26
TagTEN == 30
KnownTags == {TagXP, TagSEVEN, TagEIGHT, TagTEN}
Signature == 83

VersionName(tag) ==
  IF tag = TagXP THEN "XP"
  ELSE IF tag = TagSEVEN THEN "SEVEN"
  ELSE IF tag = TagEIGHT THEN "EIGHT"
  ELSE "TEN"

\* pfstructs.PrefetchVersion: the version tag at the cursor
PrefetchVersion(st) ==
  LET r == ReadExact(st, 1)
  IN  IF r.ok /\ r.bytes[1] \in KnownTags
      THEN [st |-> r.st, ok |-> TRUE, val |-> Some(VersionName(r.bytes[1]))]
      ELSE [st |-> r.st, ok |-> FALSE, val |-> None]

\* pfstructs.PrefetchHeader: version tag, magic signature, raw hash
PrefetchHeader(st) ==
  LET v == PrefetchVersion(st)
      s == ReadExact(v.st, 1)
      h == ReadExact(s.st, 1)
  IN  IF ~v.ok THEN [st |-> v.st, ok |-> FALSE, val |-> None]
      ELSE IF ~(s.ok /\ s.bytes[1] = Signature) THEN [st |-> s.st, ok |-> FALSE, val |-> None]
      ELSE IF ~h.ok THEN [st |-> h.st, ok |-> FALSE, val |-> None]
      ELSE [st |-> h.st, ok |-> TRUE,
            val |-> Some([Version |-> v.val[1], RawSignature |-> s.bytes[1],
                          RawPrefetchHash |-> h.bytes[1]])]

HeaderSize == 3

\* number of raw last-execution timestamps stored by a layout version
ExecTimes(version) == IF version \in {"XP", "SEVEN"} THEN 1 ELSE 2
FileInfoFixed == 8
FileInfoSize(version) == FileInfoFixed + ExecTimes(version)

\* pfstructs.PrefetchFileInformation17/23/26/30: the offset table
PrefetchFileInformation(version, st) ==
  LET r == ReadExact(st, FileInfoSize(version))
      b == r.bytes
  IN  IF ~r.ok THEN [st |-> r.st, ok |-> FALSE, val |-> None]
      ELSE [st |-> r.st, ok |-> TRUE,
            val |-> Some([SectionAOffset |-> b[1], SectionAEntriesCount |-> b[2],
                          SectionBOffset |-> b[3], SectionBEntriesCount |-> b[4],
                          SectionCOffset |-> b[5], SectionCLength |-> b[6],
                          SectionDOffset |-> b[7], SectionDEntriesCount |-> b[8],
                          RawLastExecutionTime |->
                            SubSeq(b, FileInfoFixed + 1, FileInfoSize(version))])]

\* pfstructs.PrefetchFileMetricsEntry17/23/26/30 (only XP lacks FileReference)
MetricsEntrySize(version) == IF version = "XP" THEN 2 ELSE 3

PrefetchFileMetricsEntry(version, st) ==
  LET r == ReadExact(st, MetricsEntrySize(version))
      b == r.bytes
  IN  IF ~r.ok THEN [st |-> r.st, ok |-> FALSE, val |-> None]
      ELSE [st |-> r.st, ok |-> TRUE,
            val |-> Some(IF version = "XP"
                         THEN [StartTime |-> b[1], FileNameOffset |-> b[2]]
                         ELSE [StartTime |-> b[1], FileNameOffset |-> b[2],
                               FileReference |-> b[3]])]

\* pfstructs.PrefetchTraceChainEntry
TraceChainEntrySize == 2

PrefetchTraceChainEntry(st) ==
  LET r == ReadExact(st, TraceChainEntrySize)
  IN  IF ~r.ok THEN [st |-> r.st, ok |-> FALSE, val |-> None]
      ELSE [st |-> r.st, ok |-> TRUE,
            val |-> Some([NextEntryIndex |-> r.bytes[1], BlocksLoaded |-> r.bytes[2]])]

\* pfstructs.PrefetchVolumeInformation17/23/26/30 (later layouts are padded)
VolumeInfoFixed == 6
VolumeInfoSize(version) == IF version = "XP" THEN VolumeInfoFixed ELSE VolumeInfoFixed + 1

PrefetchVolumeInformation(version, st) ==
  LET r == ReadExact(st, VolumeInfoSize(version))
      b == r.bytes
  IN  IF ~r.ok THEN [st |-> r.st, ok |-> FALSE, val |-> None]
      ELSE [st |-> r.st, ok |-> TRUE,
            val |-> Some([VolumeDevicePathOffset |-> b[1], VolumeDevicePathLength |-> b[2],
                          RawVolumeCreateTime |-> b[3], SectionEOffset |-> b[4],
                          SectionFOffset |-> b[5], SectionFStringsCount |-> b[6]])]

\* pfstructs.PrefetchFileReferences: a count, then that many references
PrefetchFileReferences(st) ==
  LET c == ReadExact(st, 1)
      n == IF c.ok THEN c.bytes[1] ELSE 0
      r == ReadExact(c.st, n)
  IN  IF ~c.ok THEN [st |-> c.st, ok |-> FALSE, val |-> None]
      ELSE IF ~r.ok THEN [st |-> r.st, ok |-> FALSE, val |-> None]
      ELSE [st |-> r.st, ok |-> TRUE,
            val |-> Some([ReferenceCount |-> n, References |-> r.bytes])]

\* pfstructs.Int16ul
Int16ul(st) ==
  LET r == ReadExact(st, 2)
  IN  [st |-> r.st, ok |-> r.ok,
       val |-> IF r.ok THEN r.bytes[1] + 256 * r.bytes[2] ELSE 0]

\* WindowsTime.parse_filetime: ticks since the 1601 epoch
ParseFiletime(ft) == [epoch |-> "1601-01-01", ticks |-> ft]

\* self._clean_value: the normaliser keeps the shape of what it is given
CleanValue(v) == v

\* ------------------------------------------------------------ text decoding
\* the 16-bit code units of a byte run, little- or big-endian
Utf16Units(b, bigEndian) ==
  [i \in 1..(Len(b) \div 2) |->
     IF bigEndian THEN 256 * b[2 * i - 1] + b[2 * i] ELSE b[2 * i - 1] + 256 * b[2 * i]]

IsHighSurrogate(u) == u >= 55296 /\ u <= 56319
IsLowSurrogate(u) == u >= 56320 /\ u <= 57343

RECURSIVE Utf16Chars(_, _)
\* code units to code points; an unpaired surrogate is a decoding error
Utf16Chars(u, i) ==
  IF i > Len(u) THEN [ok |-> TRUE, chars |-> <<>>]
  ELSE IF IsHighSurrogate(u[i])
  THEN IF i + 1 <= Len(u) /\ IsLowSurrogate(u[i + 1])
       THEN LET rest == Utf16Chars(u, i + 2)
            IN  [ok |-> rest.ok,
                 chars |-> <<65536 + (u[i] - 55296) * 1024 + (u[i + 1] - 56320)>> \o rest.chars]
       ELSE [ok |-> FALSE, chars |-> <<>>]
  ELSE IF IsLowSurrogate(u[i]) THEN [ok |-> FALSE, chars |-> <<>>]
  ELSE LET rest == Utf16Chars(u, i + 1)
       IN  [ok |-> rest.ok, chars |-> <<u[i]>> \o rest.chars]

\* bytes.decode('UTF16'): a byte order mark selects the byte order and is
\* dropped, little-endian otherwise; an odd byte count is truncated data
DecodeUtf16(b) ==
  LET bomLE == Len(b) >= 2 /\ b[1] = 255 /\ b[2] = 254
      bomBE == Len(b) >= 2 /\ b[1] = 254 /\ b[2] = 255
      body  == IF bomLE \/ bomBE THEN SubSeq(b, 3, Len(b)) ELSE b
      r     == Utf16Chars(Utf16Units(body, bomBE), 1)
  IN  IF Len(body) % 2 = 1 \/ ~r.ok THEN [ok |-> FALSE, chars |-> <<>>] ELSE r

RECURSIVE LStripNul(_)
LStripNul(s) == IF s # <<>> /\ Head(s) = 0 THEN LStripNul(Tail(s)) ELSE s

RECURSIVE RStripNul(_)
RStripNul(s) ==
  IF s # <<>> /\ s[Len(s)] = 0 THEN RStripNul(SubSeq(s, 1, Len(s) - 1)) ELSE s

\* str.strip('\x00')
StripNul(s) == RStripNul(LStripNul(s))

\* bytes.replace(b'\x00', b'')
RECURSIVE RemoveZeroBytes(_)
RemoveZeroBytes(b) ==
  IF b = <<>> THEN <<>>
  ELSE IF Head(b) = 0 THEN RemoveZeroBytes(Tail(b))
  ELSE <<Head(b)>> \o RemoveZeroBytes(Tail(b))

\* pfstructs.PaddedString(length, encoding='utf8').parse(b): exactly `length`
\* bytes are taken, trailing padding is dropped, and the rest is decoded
\* (single-byte code points; a byte above 127 is not decodable on its own)
PaddedString(length, b) ==
  IF Len(b) < length THEN [ok |-> FALSE, chars |-> <<>>]
  ELSE LET taken == RStripNul(SubSeq(b, 1, length))
       IN  IF \E i \in 1..Len(taken) : taken[i] > 127
           THEN [ok |-> FALSE, chars |-> <<>>]
           ELSE [ok |-> TRUE, chars |-> taken]

\* pfstructs.PrefetchFileNameString: a length-prefixed UTF-16 run
PrefetchFileNameString(st) ==
  LET l == Int16ul(st)
      r == ReadExact(l.st, 2 * l.val)
      d == DecodeUtf16(r.bytes)
  IN  IF ~l.ok THEN [st |-> l.st, ok |-> FALSE, val |-> None]
      ELSE IF ~(r.ok /\ d.ok) THEN [st |-> r.st, ok |-> FALSE, val |-> None]
      ELSE [st |-> r.st, ok |-> TRUE, val |-> Some(d.chars)]

\* ------------------------------------------------- lazy section properties
\* An interpreter state st is [data, pos, cache, tr, g]: the byte source and
\* its cursor, the cache slot of every section, and two records kept for
\* stating properties: tr[S] describes the latest call of S's decoder, g
\* holds what the table decoders did on the way.  An outcome is [st, ok, val]
\* with val = Some(v) when ok and None when an exception was raised.
\* Intermediate results are handed on as operator arguments.

\* the sections the decoder of S relies on: its declared dependencies and
\* the sections whose fields it reads
Upstream ==
  [header |-> {},
   file_info |-> {"header"},
   file_metrics |-> {"header", "file_info"},
   filename_strings |-> {"header", "file_info", "file_metrics"},
   trace_chains |-> {"header", "file_info"},
   volumes_info |-> {"header", "file_info"},
   file_references |-> {"file_info", "volumes_info"},
   directory_strings |-> {"file_info", "volumes_info"}]

Failed(st) == [st |-> st, ok |-> FALSE, val |-> None]

\* r is the outcome of S's decoder called in state st: tr[S] notes the cursor
\* on entry and on exit and which of the sections S relies on held a value
\* when the call began
Traced(st, S, r) ==
  [st |-> [r.st EXCEPT !.tr[S] =
             [n |-> r.st.tr[S].n + 1, before |-> st.pos, after |-> r.st.pos,
              ok |-> r.ok,
              cached |-> {x \in Upstream[S] : st.cache[x].status = "ok"}]],
   ok |-> r.ok, val |-> r.val]

\* one call of S's decoder Dec on the byte source
Invoke(st, S, Dec(_)) == Traced(st, S, Dec(st))

\* the next declared dependency, unless an earlier one failed
DepNext(prev, name, Dep(_, _)) == IF ~prev.ok THEN prev ELSE Dep(prev.st, name)

\* the declared dependencies of a section, each read in turn through Dep
ResolveDeps(st, deps, Dep(_, _)) ==
  LET f[i \in 0..Len(deps)] ==
        IF i = 0 THEN [st |-> st, ok |-> TRUE, val |-> None]
        ELSE DepNext(f[i - 1], deps[i], Dep)
  IN  f[Len(deps)]

\* the outcome r of S's decoder is kept in S's slot
Keep(S, r) ==
  [st |-> [r.st EXCEPT !.cache[S] =
             [status |-> IF r.ok THEN "ok" ELSE "failed",
              val |-> IF r.ok THEN r.val ELSE None]],
   ok |-> r.ok, val |-> IF r.ok THEN r.val ELSE None]

\* d is the outcome of resolving S's dependencies: S fails with them, and
\* otherwise its decoder runs
Settle(S, d, Dec(_)) ==
  IF ~d.ok
  THEN Failed([d.st EXCEPT !.cache[S] = [status |-> "failed", val |-> None]])
  ELSE Keep(S, Invoke(d.st, S, Dec))

\* read access to section S: the cached outcome if there is one; otherwise
\* the dependencies first, then the decoder, and the outcome is kept
Property(st, S, Dep(_, _), Dec(_)) ==
  IF st.cache[S].status # "unresolved"
  THEN [st |-> st, ok |-> st.cache[S].status = "ok", val |-> st.cache[S].val]
  ELSE Settle(S, ResolveDeps(st, Deps[S], Dep), Dec)

\* Leaving a decoder without putting the cursor back
RestoreForgotten(st, original_position) == st

\* finally: stream.seek(original_position)
Restore(st, original_position) == Seek(st, original_position)

\* An exception that is swallowed, an empty table being returned in its place
RaiseSwallowed(st, original_position) ==
  [st |-> Restore(st, original_position), ok |-> TRUE, val |-> Some(<<>>)]

\* an exception leaving a try/finally decoder: the finally block runs and
\* the exception goes on to the caller
Raise(st, original_position) ==
  [st |-> Restore(st, original_position), ok |-> FALSE, val |-> None]

\* return self._clean_value(v) from inside try/finally
Return(st, original_position, v) ==
  [st |-> Restore(st, original_position), ok |-> TRUE, val |-> Some(CleanValue(v))]

\* a table loop ended: by an exception, or with the table to return
Finish(original_position, loop) ==
  IF ~loop.ok THEN Raise(loop.st, original_position)
  ELSE Return(loop.st, original_position, loop.val)

\* ---- header
HeaderRecord(r) ==
  IF ~r.ok THEN Failed(r.st)
  ELSE [st |-> r.st, ok |-> TRUE,
        val |-> Some(CleanValue([Version |-> r.val[1].Version,
                                 RawSignature |-> r.val[1].RawSignature,
                                 RawPrefetchHash |-> r.val[1].RawPrefetchHash]))]

\* _parse_header: reads at the cursor and leaves it behind the record
ParseHeader(st) == HeaderRecord(PrefetchHeader(st))

\* header has no declared dependency
Dep0(st, name) == Failed(st)

\* the header property
GetHeader(st) == Property(st, "header", Dep0, ParseHeader)

\* self.header read inside a decoder
SelfHeader(st) == GetHeader(st)

\* ---- file_info
FileInfoRecord(r) ==
  IF ~r.ok THEN Failed(r.st)
  ELSE [st |-> r.st, ok |-> TRUE,
        val |-> Some(CleanValue(
                  r.val[1] @@
                  [LastExecutionTime |->
                     [i \in 1..Len(r.val[1].RawLastExecutionTime) |->
                        ParseFiletime(r.val[1].RawLastExecutionTime[i])]]))]

FileInfoOf(h) ==
  IF ~h.ok THEN Failed(h.st)
  ELSE FileInfoRecord(PrefetchFileInformation(h.val[1].Version, h.st))

\* _parse_file_info: reads at the cursor and leaves it behind the record
ParseFileInfo(st) == FileInfoOf(SelfHeader(st))

\* the properties file_info may depend on
Dep1(st, name) == CASE name = "header" -> GetHeader(st)

\* the file_info property
GetFileInfo(st) == Property(st, "file_info", Dep1, ParseFileInfo)

\* A read of the offset table that calls its decoder again
SelfFileInfoUncached(st) == Invoke(st, "file_info", ParseFileInfo)

\* self.file_info read inside a decoder
SelfFileInfo(st) == GetFileInfo(st)

\* ---- file_metrics
MetricsEntry(c) ==
  IF "FileReference" \in DOMAIN c THEN [c EXCEPT !.FileReference = CleanValue(@)] ELSE c

RECURSIVE FileMetricsLoop(_, _, _, _)
FileMetricsStep(e, version, count, acc) ==
  IF ~e.ok
  THEN [st |-> [e.st EXCEPT !.g.fmDone = Some(acc)], ok |-> FALSE, val |-> acc]
  ELSE FileMetricsLoop(e.st, version, count,
                       Append(acc, MetricsEntry(CleanValue(e.val[1]))))

\* for i in range(SectionAEntriesCount): one record each, no handler
FileMetricsLoop(st, version, count, acc) ==
  IF Len(acc) >= count THEN [st |-> st, ok |-> TRUE, val |-> acc]
  ELSE FileMetricsStep(PrefetchFileMetricsEntry(version, st), version, count, acc)

FileMetricsOf(original_position, fi, h) ==
  IF ~h.ok THEN Raise(h.st, original_position)
  ELSE Finish(original_position,
              FileMetricsLoop(h.st, h.val[1].Version, fi.SectionAEntriesCount, <<>>))

FileMetricsAt(original_position, fi) ==
  IF ~fi.ok THEN Raise(fi.st, original_position)
  ELSE FileMetricsOf(original_position, fi.val[1],
                     SelfHeader(Seek(fi.st, fi.val[1].SectionAOffset)))

\* _parse_file_metrics
ParseFileMetrics(st) == FileMetricsAt(st.pos, SelfFileInfo(st))

\* ---- trace_chains
RECURSIVE TraceChainsLoop(_, _, _)
TraceChainsStep(e, count, acc) ==
  IF ~e.ok THEN [st |-> e.st, ok |-> FALSE, val |-> acc]
  ELSE TraceChainsLoop(e.st, count, Append(acc, e.val[1]))

TraceChainsLoop(st, count, acc) ==
  IF Len(acc) >= count THEN [st |-> st, ok |-> TRUE, val |-> acc]
  ELSE TraceChainsStep(PrefetchTraceChainEntry(st), count, acc)

TraceChainsAt(original_position, fi) ==
  IF ~fi.ok THEN Raise(fi.st, original_position)
  ELSE Finish(original_position,
              TraceChainsLoop(Seek(fi.st, fi.val[1].SectionBOffset),
                              fi.val[1].SectionBEntriesCount, <<>>))

\* _parse_trace_chains
ParseTraceChains(st) == TraceChainsAt(st.pos, SelfFileInfo(st))

\* ---- volumes_info
RECURSIVE VolumesInfoLoop(_, _, _, _, _)
VolumeEntry(e, p) ==
  e @@ [VolumeCreateTime |-> ParseFiletime(e.RawVolumeCreateTime),
        VolumeDevicePath |-> p.chars]

\* the device path was read (rd) and parsed (p); back to the fixed records
VolumesInfoPath(rd, p, e, volumes_info_position, version, fi, count, acc) ==
  IF ~p.ok THEN [st |-> rd.st, ok |-> FALSE, val |-> acc]
  ELSE VolumesInfoLoop(Seek(rd.st, volumes_info_position), version, fi, count,
                       Append(acc, VolumeEntry(e, p)))

VolumesInfoRead(rd, e, volumes_info_position, version, fi, count, acc) ==
  VolumesInfoPath(rd, PaddedString(e.VolumeDevicePathLength, RemoveZeroBytes(rd.bytes)),
                  e, volumes_info_position, version, fi, count, acc)

VolumesInfoStep(e, version, fi, count, acc) ==
  IF ~e.ok THEN [st |-> e.st, ok |-> FALSE, val |-> acc]
  ELSE VolumesInfoRead(
         Read(Seek(e.st, fi.SectionDOffset + e.val[1].VolumeDevicePathOffset),
              e.val[1].VolumeDevicePathLength * 2),
         e.val[1], e.st.pos, version, fi, count, acc)

\* one fixed record, then its device path read out of line, then back
VolumesInfoLoop(st, version, fi, count, acc) ==
  IF Len(acc) >= count THEN [st |-> st, ok |-> TRUE, val |-> acc]
  ELSE VolumesInfoStep(PrefetchVolumeInformation(version, st), version, fi, count, acc)

VolumesInfoOf(original_position, fi, h) ==
  IF ~h.ok THEN Raise(h.st, original_position)
  ELSE Finish(original_position,
              VolumesInfoLoop(h.st, h.val[1].Version, fi, fi.SectionDEntriesCount, <<>>))

VolumesInfoAt(original_position, fi) ==
  IF ~fi.ok THEN Raise(fi.st, original_position)
  ELSE VolumesInfoOf(original_position, fi.val[1],
                     SelfHeader(Seek(fi.st, fi.val[1].SectionDOffset)))

\* _parse_volumes_info
ParseVolumesInfo(st) == VolumesInfoAt(st.pos, SelfFileInfo(st))

\* the properties the sections located by the offset table may depend on
Dep2(st, name) ==
  CASE name = "header"    -> GetHeader(st)
    [] name = "file_info" -> GetFileInfo(st)

\* the file_metrics, trace_chains and volumes_info properties
GetFileMetrics(st) == Property(st, "file_metrics", Dep2, ParseFileMetrics)
GetTraceChains(st) == Property(st, "trace_chains", Dep2, ParseTraceChains)
GetVolumesInfo(st) == Property(st, "volumes_info", Dep2, ParseVolumesInfo)

\* self.file_metrics and self.volumes_info read inside a decoder
SelfFileMetrics(st) == GetFileMetrics(st)
SelfVolumesInfo(st) == GetVolumesInfo(st)

\* ---- filename_strings
\* (stream.tell() - SectionCOffset) <= SectionCLength
WithinTable(offset, length) == offset <= length

\* g.fsReads notes every string read: its index, the offset it began at and
\* the cursor it ended at
Seen(st, e, fi, acc) ==
  [e.st EXCEPT !.g.fsReads =
     Append(@, [idx |-> Len(acc), off |-> st.pos - fi.SectionCOffset, end |-> e.st.pos])]

RECURSIVE FilenameStringsLoop(_, _, _, _)
FilenameStringsStep(st, e, fi, count, acc) ==
  IF ~e.ok THEN [st |-> Seen(st, e, fi, acc), ok |-> FALSE, val |-> acc]
  ELSE FilenameStringsLoop(Seen(st, e, fi, acc), fi, count, Append(acc, e.val))

\* for file_metric in self.file_metrics: a string while inside the table
FilenameStringsLoop(st, fi, count, acc) ==
  IF Len(acc) >= count THEN [st |-> st, ok |-> TRUE, val |-> acc]
  ELSE IF WithinTable(st.pos - fi.SectionCOffset, fi.SectionCLength)
  THEN FilenameStringsStep(st, PrefetchFileNameString(st), fi, count, acc)
  ELSE FilenameStringsLoop(st, fi, count, Append(acc, None))

FilenameStringsOf(original_position, fi, fm) ==
  IF ~fm.ok THEN Raise(fm.st, original_position)
  ELSE Finish(original_position, FilenameStringsLoop(fm.st, fi, Len(fm.val[1]), <<>>))

FilenameStringsAt(original_position, fi) ==
  IF ~fi.ok THEN Raise(fi.st, original_position)
  ELSE FilenameStringsOf(original_position, fi.val[1],
                         SelfFileMetrics(Seek(fi.st, fi.val[1].SectionCOffset)))

\* _parse_filename_strings
ParseFilenameStrings(st) == FilenameStringsAt(st.pos, SelfFileInfo(st))

\* ---- file_references
\* A handler that logs the error and appends nothing
FileRefsExceptDrop(acc) == acc

\* except Exception: file_refs.append(None)
FileRefsExcept(acc) == Append(acc, None)

RECURSIVE FileReferencesLoop(_, _, _, _)
FileReferencesParsed(e, vols, i, acc) ==
  IF ~e.ok THEN FileReferencesLoop(e.st, vols, i + 1, FileRefsExcept(acc))
  ELSE FileReferencesLoop(e.st, vols, i + 1, Append(acc, e.val))

FileReferencesStep(fi, vols, i, acc) ==
  IF ~fi.ok THEN FileReferencesLoop(fi.st, vols, i + 1, FileRefsExcept(acc))
  ELSE FileReferencesParsed(
         PrefetchFileReferences(
           Seek(fi.st, fi.val[1].SectionDOffset + vols[i].SectionEOffset)),
         vols, i, acc)

\* for volumes_info_entry in self.volumes_info: seek, parse, handler per entry
FileReferencesLoop(st, vols, i, acc) ==
  IF i > Len(vols) THEN [st |-> st, ok |-> TRUE, val |-> acc]
  ELSE FileReferencesStep(SelfFileInfo(st), vols, i, acc)

FileReferencesAt(original_position, vi) ==
  IF ~vi.ok THEN Raise(vi.st, original_position)
  ELSE Finish(original_position, FileReferencesLoop(vi.st, vi.val[1], 1, <<>>))

\* _parse_file_references
ParseFileReferences(st) == FileReferencesAt(st.pos, SelfVolumesInfo(st))

\* ---- directory_strings
RECURSIVE DirectoryStringsLoop(_, _, _)
DirectoryStringsDecoded(rd, d, count, acc) ==
  IF ~d.ok THEN DirectoryStringsLoop(rd.st, count, Append(acc, None))
  ELSE DirectoryStringsLoop(rd.st, count, Append(acc, Some(StripNul(d.chars))))

DirectoryStringsRead(rd, count, acc) ==
  DirectoryStringsDecoded(rd, DecodeUtf16(rd.bytes), count, acc)

DirectoryStringsStep(l, count, acc) ==
  IF ~l.ok THEN DirectoryStringsLoop(l.st, count, Append(acc, None))
  ELSE DirectoryStringsRead(Read(l.st, l.val * 2 + 2), count, acc)

\* for i in range(SectionFStringsCount): length, run, decode; handler per string
DirectoryStringsLoop(st, count, acc) ==
  IF Len(acc) >= count THEN [st |-> st, ok |-> TRUE, val |-> acc]
  ELSE DirectoryStringsStep(Int16ul(st), count, acc)

RECURSIVE DirectoryVolumesLoop(_, _, _, _)
DirectoryVolumesNext(inner, vols, i, acc) ==
  DirectoryVolumesLoop(inner.st, vols, i + 1, Append(acc, inner.val))

DirectoryVolumesStep(fi, vols, i, acc) ==
  IF ~fi.ok THEN [st |-> fi.st, ok |-> FALSE, val |-> acc]
  ELSE DirectoryVolumesNext(
         DirectoryStringsLoop(
           Seek(fi.st, fi.val[1].SectionDOffset + vols[i].SectionFOffset),
           vols[i].SectionFStringsCount, <<>>),
         vols, i, acc)

\* for volumes_info_entry in self.volumes_info: seek to its table, read it
DirectoryVolumesLoop(st, vols, i, acc) ==
  IF i > Len(vols) THEN [st |-> st, ok |-> TRUE, val |-> acc]
  ELSE DirectoryVolumesStep(SelfFileInfo(st), vols, i, acc)

DirectoryStringsAt(original_position, vi) ==
  IF ~vi.ok THEN Raise(vi.st, original_position)
  ELSE Finish(original_position, DirectoryVolumesLoop(vi.st, vi.val[1], 1, <<>>))

\* _parse_directory_strings
ParseDirectoryStrings(st) == DirectoryStringsAt(st.pos, SelfVolumesInfo(st))

\* the properties the sections located through other tables may depend on
Dep3(st, name) ==
  CASE name = "header"       -> GetHeader(st)
    [] name = "file_info"    -> GetFileInfo(st)
    [] name = "file_metrics" -> GetFileMetrics(st)
    [] name = "trace_chains" -> GetTraceChains(st)
    [] name = "volumes_info" -> GetVolumesInfo(st)

\* the filename_strings, file_references and directory_strings properties
GetFilenameStrings(st) == Property(st, "filename_strings", Dep3, ParseFilenameStrings)
GetFileReferences(st) == Property(st, "file_references", Dep3, ParseFileReferences)
GetDirectoryStrings(st) == Property(st, "directory_strings", Dep3, ParseDirectoryStrings)

\* read access to a section by name
Get(st, S) ==
  CASE S = "header"            -> GetHeader(st)
    [] S = "file_info"         -> GetFileInfo(st)
    [] S = "file_metrics"      -> GetFileMetrics(st)
    [] S = "filename_strings"  -> GetFilenameStrings(st)
    [] S = "trace_chains"      -> GetTraceChains(st)
    [] S = "volumes_info"      -> GetVolumesInfo(st)
    [] S = "file_references"   -> GetFileReferences(st)
    [] S = "directory_strings" -> GetDirectoryStrings(st)

\* ------------------------------------------------------- input artifacts
\* A well-formed artifact in the miniature schema: header, offset table,
\* nA metrics records, one trace chain record, k filename strings, `pad`
\* zero bytes, and one volume per element of fs, fs[j] being the number of
\* directory strings of volume j.
RECURSIVE Concat(_)
Concat(ss) == IF ss = <<>> THEN <<>> ELSE Head(ss) \o Concat(Tail(ss))

Zeros(n) == [i \in 1..n |-> 0]

MetricsBytes(version, i) ==
  IF version = "XP" THEN <<i, 10 + i>> ELSE <<i, 10 + i, 20 + i>>

FilenameBytes(i) == <<1, 0, 64 + i, 0>>

DirectoryStringBytes(j, i) == <<1, 0, 96 + 8 * j + i, 0, 0, 0>>

\* device path (2 bytes), file reference table (3 bytes), directory strings
VolumeBlob(fs, j) ==
  <<66 + j, 0>> \o <<2, 90 + j, 80 + j>> \o
  Concat([i \in 1..fs[j] |-> DirectoryStringBytes(j, i)])

RECURSIVE BlobBase(_, _, _)
\* offset of volume j's blob from the start of section D
BlobBase(version, fs, j) ==
  IF j = 1 THEN Len(fs) * VolumeInfoSize(version)
  ELSE BlobBase(version, fs, j - 1) + Len(VolumeBlob(fs, j - 1))

VolumeEntryBytes(version, fs, j) ==
  LET base == BlobBase(version, fs, j)
  IN  <<base, 1, 5, base + 2, base + 5, fs[j]>> \o
      Zeros(VolumeInfoSize(version) - VolumeInfoFixed)

Build(tag, nA, k, pad, fs) ==
  LET version == VersionName(tag)
      A == Concat([i \in 1..nA |-> MetricsBytes(version, i)])
      B == <<1, 2>>
      C == Concat([i \in 1..k |-> FilenameBytes(i)])
      D == Concat([j \in 1..Len(fs) |-> VolumeEntryBytes(version, fs, j)]) \o
           Concat([j \in 1..Len(fs) |-> VolumeBlob(fs, j)])
      offA == HeaderSize + FileInfoSize(version)
      offB == offA + Len(A)
      offC == offB + Len(B)
      offD == offC + Len(C) + pad
  IN  <<tag, Signature, 171>> \o
      <<offA, nA, offB, 1, offC, Len(C), offD, Len(fs)>> \o
      [i \in 1..ExecTimes(version) |-> 6 + i] \o
      A \o B \o C \o Zeros(pad) \o D

\* absolute offset of the length prefix of directory string i of volume j
DirectoryStringPos(in, j, i) ==
  LET version == VersionName(in.tag)
  IN  HeaderSize + FileInfoSize(version) + in.nA * MetricsEntrySize(version) +
      TraceChainEntrySize + 4 * in.k + in.pad +
      BlobBase(version, in.fs, j) + 5 + 6 * (i - 1)

\* damage: the artifact cut to `cut` bytes (whole when cut is NoCut), or one
\* byte overwritten
Damage(b, cut, poke) ==
  LET c == IF cut < 0 THEN b ELSE SubSeq(b, 1, Min(cut, Len(b)))
  IN  IF poke = <<>> \/ poke[1] > Len(c) THEN c
      ELSE [c EXCEPT ![poke[1]] = poke[2]]

NoCut == 0 - 1
PokeValues == {0, 40}

Pristine(in) == Build(in.tag, in.nA, in.k, in.pad, in.fs)
Payload(in) == Damage(Pristine(in), in.cut, in.poke)

\* the compressed container: magic, declared decompressed size, payload
MamMagic == <<77, 65, 77>>

RawBytes(in) ==
  IF in.wrap = "raw" THEN Payload(in)
  ELSE IF in.wrap = "mam" THEN MamMagic \o <<Len(Payload(in))>> \o Payload(in)
  ELSE MamMagic \o <<Len(Payload(in)) + 1>> \o Payload(in)

\* DecompressWin10.decompress: fails unless the input is a whole container
Decompress(raw) ==
  IF Len(raw) >= 4 /\ SubSeq(raw, 1, 3) = MamMagic /\ raw[4] = Len(raw) - 4
  THEN [ok |-> TRUE, bytes |-> SubSeq(raw, 5, Len(raw))]
  ELSE [ok |-> FALSE, bytes |-> <<>>]

VolumeShapes == UNION {[1..n -> 0..MaxStrings] : n \in 0..MaxVolumes}

DefaultShape ==
  [tag |-> TagTEN, nA |-> 2, k |-> 2, pad |-> 0, fs |-> <<2, 1>>,
   cut |-> NoCut, poke |-> <<>>, wrap |-> "raw"]

\* the inputs explored: every table size on sound artifacts; on one fixed
\* artifact every cut, every byte overwritten with a small and with a large
\* value, and a directory string turned into an unpaired surrogate
Inputs ==
  {[DefaultShape EXCEPT !.tag = t, !.nA = a, !.k = k, !.pad = p] :
     t \in KnownTags, a \in 0..MaxEntries, k \in 0..MaxEntries, p \in {0, 2}}
  \cup {[DefaultShape EXCEPT !.tag = t, !.fs = f] : t \in {TagXP, TagTEN}, f \in VolumeShapes}
  \cup {[DefaultShape EXCEPT !.cut = c] : c \in 0..Len(Pristine(DefaultShape))}
  \cup {[DefaultShape EXCEPT !.poke = <<i, v>>] :
          i \in 1..Len(Pristine(DefaultShape)), v \in PokeValues}
  \cup UNION {{[DefaultShape EXCEPT !.poke =
                   <<DirectoryStringPos(DefaultShape, j, i) + 4, 216>>] :
                 i \in 1..DefaultShape.fs[j]} : j \in 1..Len(DefaultShape.fs)}
  \cup {[DefaultShape EXCEPT !.wrap = w, !.cut = c] :
          w \in {"mam", "mamBad"}, c \in {0, NoCut}}

\* ------------------------------------------------------------------ state
VARIABLES
  input,            \* how the artifact under parse was produced
  source,           \* self.source: the bytes of the file
  pc,               \* "new", "open" (self.stream set), "returned", "fatal"
  decompressCalls,  \* calls of DecompressWin10.decompress
  data,             \* the byte source of the artifact
  pos,              \* its cursor
  cache,            \* cache slot of every section
  tr,               \* latest decoder call of every section
  g,                \* what the table decoders did
  hit               \* the latest access found the section's slot filled

vars == <<input, source, pc, decompressCalls, data, pos, cache, tr, g, hit>>

\* every slot empty, no decoder called yet
NoCache == [S \in Sections |-> [status |-> "unresolved", val |-> None]]
NoCalls ==
  [S \in Sections |-> [n |-> 0, before |-> 0, after |-> 0, ok |-> FALSE, cached |-> {}]]
NoNotes == [fmDone |-> None, fsReads |-> <<>>]

\* a parse session over the bytes b, nothing read yet
Fresh(b) == [data |-> b, pos |-> 0, cache |-> NoCache, tr |-> NoCalls, g |-> NoNotes]

Init ==
  /\ input \in {in \in Inputs : in.k <= in.nA}
  /\ source = RawBytes(input)
  /\ pc = "new"
  /\ decompressCalls = 0
  /\ data = <<>>
  /\ pos = 0
  /\ cache = NoCache
  /\ tr = NoCalls
  /\ g = NoNotes
  /\ hit = FALSE

\* A probe that never recognises the version tag
GetVersionBlind(src) == None

\* __get_version: the tag read through a file handle of its own
GetVersion(src) ==
  PrefetchVersion([data |-> src, pos |-> 0]).val

\* FileParser.create_stream: the file itself is the byte source
SuperCreateStream(src) == [ok |-> TRUE, bytes |-> src]

\* the stream was made, or the exception of the decompressor went to the caller
Created(made, persist) ==
  /\ data' = IF made.ok THEN made.bytes ELSE data
  /\ pc' = IF ~made.ok THEN "fatal" ELSE IF persist THEN "open" ELSE "returned"

\* create_stream(persist)
CreateStream(persist) ==
  /\ pc = "new"
  /\ IF GetVersion(source) = None
     THEN /\ decompressCalls' = decompressCalls + 1
          /\ Created(Decompress(source), persist)
     ELSE /\ decompressCalls' = decompressCalls
          /\ Created(SuperCreateStream(source), persist)
  /\ pos' = 0
  /\ UNCHANGED <<input, source, cache, tr, g, hit>>

\* the state the access r leaves behind
Accessed(r) ==
  /\ pos' = r.st.pos
  /\ cache' = r.st.cache
  /\ tr' = r.st.tr
  /\ g' = r.st.g

\* read access to section S by the client
Access(S) ==
  /\ pc = "open"
  /\ \A x \in Sections : tr[x].n < MaxDecodes
  /\ Accessed(Get([data |-> data, pos |-> pos, cache |-> cache, tr |-> tr, g |-> g], S))
  /\ hit' = (cache[S].status # "unresolved")
  /\ UNCHANGED <<input, source, pc, decompressCalls, data>>

Next ==
  \/ \E persist \in BOOLEAN : CreateStream(persist)
  \/ \E S \in Sections : Access(S)

Spec == Init /\ [][Next]_vars

\* ---------------------------------------------------------------- claims
SeekingSections ==
  {"file_metrics", "filename_strings", "trace_chains", "volumes_info",
   "file_references", "directory_strings"}

Value(S) == cache[S].val[1]

C2_DecodedAtMostOnce ==
  \A S \in Sections : tr[S].n <= 1

\* file_info was shared by four dependents, and the latest access was served
\* from the cache
C2_Witness ==
  /\ hit
  /\ \A S \in {"file_info", "trace_chains", "volumes_info", "file_references",
               "directory_strings"} : tr[S].n = 1 /\ cache[S].status = "ok"

\* the dependency pairs of the section registrations
DeclaredPairs ==
  {<<"file_info", "header">>, <<"file_metrics", "header">>,
   <<"filename_strings", "header">>, <<"filename_strings", "file_info">>,
   <<"filename_strings", "file_metrics">>,
   <<"trace_chains", "header">>, <<"trace_chains", "file_info">>,
   <<"volumes_info", "header">>, <<"volumes_info", "file_info">>,
   <<"file_references", "file_info">>, <<"file_references", "volumes_info">>,
   <<"directory_strings", "file_info">>, <<"directory_strings", "volumes_info">>}

\* C3: for every declared pair (S depends on D), D held a cached value at the
\* moment S's decoder was called, whatever was requested first.
C3_DependenciesCachedAtDecoderStart ==
  \A p \in DeclaredPairs : tr[p[1]].n > 0 => p[2] \in tr[p[1]].cached

\* directory_strings was the first section asked for, and it was decoded
C3_Witness ==
  /\ tr["directory_strings"].n = 1 /\ cache["directory_strings"].status = "ok"
  /\ \A S \in {"file_metrics", "filename_strings", "trace_chains", "file_references"} :
       cache[S].status = "unresolved"

\* C4: no downstream section has its decoder started before file_info is
\* decoded and cached, in whatever order the client asks.
C4_FileInfoBeforeDownstream ==
  \A S \in SeekingSections : tr[S].n > 0 => "file_info" \in tr[S].cached

\* C5: a filename string is decoded only while the running offset from the
\* table start is strictly below SectionCLength, no byte at or beyond the end
\* of the table is read, and once the table is exactly used up after k
\* entries every later entry is None.
C5_FilenameStringsStayInsideTable ==
  cache["file_info"].status = "ok" =>
    /\ \A i \in 1..Len(g.fsReads) :
         /\ g.fsReads[i].off < Value("file_info").SectionCLength
         /\ g.fsReads[i].end <=
              Value("file_info").SectionCOffset + Value("file_info").SectionCLength
    /\ cache["filename_strings"].status = "ok" =>
         \A i \in 1..Len(g.fsReads) :
           g.fsReads[i].end =
             Value("file_info").SectionCOffset + Value("file_info").SectionCLength
           => \A m \in (g.fsReads[i].idx + 2)..Len(Value("filename_strings")) :
                Value("filename_strings")[m] = None

\* the directory strings of the artifact as it was before it was damaged
SoundDirectoryStrings == GetDirectoryStrings(Fresh(Pristine(input))).val[1]

\* the length prefix of directory string i of volume j is the damaged field
PrefixDamaged(j, i) ==
  /\ input.poke # <<>>
  /\ input.poke[1] \in {DirectoryStringPos(input, j, i) + 1,
                        DirectoryStringPos(input, j, i) + 2}

\* C6: when one directory string fails to decode because of its length
\* prefix, only its position is None; every other string of every volume has
\* the value it has in the sound artifact.
C6_OtherDirectoryStringsUnaffected ==
  cache["directory_strings"].status = "ok" =>
    \A j \in 1..Len(input.fs) : \A i \in 1..input.fs[j] :
      PrefixDamaged(j, i) /\ Value("directory_strings")[j][i] = None =>
        \A jj \in 1..Len(input.fs) : \A ii \in 1..input.fs[jj] :
          <<jj, ii>> # <<j, i>> =>
            Value("directory_strings")[jj][ii] = SoundDirectoryStrings[jj][ii]

\* C7: a short read while decoding metrics record N keeps the records
\* 0..N-1 in the section's result and does not fail the section.
C7_ShortReadKeepsDecodedMetrics ==
  g.fmDone # None =>
    /\ cache["file_metrics"].status = "ok"
    /\ Len(Value("file_metrics")) >= Len(g.fmDone[1])
    /\ SubSeq(Value("file_metrics"), 1, Len(g.fmDone[1])) = g.fmDone[1]

\* C8: once a section D has failed, every section that relies on D fails
\* when it is accessed (it never holds a value), and an access never changes
\* a slot that is already filled.
C8_FailureReachesDependents ==
  /\ [](\A S \in Sections : \A D \in Upstream[S] :
          cache[D].status = "failed" /\ cache[S].status # "unresolved"
            => cache[S].status = "failed")
  /\ [][\A S \in Sections :
          cache[S].status # "unresolved" => cache'[S] = cache[S]]_vars

\* file_info failed; file_metrics, whose decoder reads it, ran and failed,
\* volumes_info failed on its declared dependency, the header slot is intact
C8_Witness ==
  /\ cache["header"].status = "ok"
  /\ cache["file_info"].status = "failed"
  /\ tr["file_metrics"].n = 1 /\ cache["file_metrics"].status = "failed"
  /\ tr["volumes_info"].n = 0 /\ cache["volumes_info"].status = "failed"

\* C9: create_stream takes the file itself as byte source, without calling
\* the decompressor, exactly when the file begins with a known version tag;
\* otherwise the decompressed buffer is the byte source, and when
\* decompression fails there is none.  The byte source starts at its first
\* byte: the probe consumed nothing of it.
C9_ProbeSelectsByteSource ==
  pc # "new" =>
    /\ (tr["header"].n = 0 => pos = 0)
    /\ IF source # <<>> /\ source[1] \in KnownTags
       THEN pc \in {"open", "returned"} /\ data = source /\ decompressCalls = 0
       ELSE /\ decompressCalls = 1
            /\ IF Decompress(source).ok
               THEN pc \in {"open", "returned"} /\ data = Decompress(source).bytes
               ELSE pc = "fatal" /\ data = <<>>

\* a container was unwrapped and the artifact inside it was parsed
C9_Witness ==
  /\ pc = "open" /\ decompressCalls = 1 /\ data # source
  /\ cache["directory_strings"].status = "ok"

\* C10: the tables returned stay aligned with their index sections: one
\* filename string per metrics record, one reference table and one list of
\* directory strings per volume, the list of volume i holding
\* SectionFStringsCount entries; a volume whose reference table fails holds
\* None in its own slot and the other volumes hold their own tables.
C10_TablesAligned ==
  /\ cache["filename_strings"].status = "ok" =>
       Len(Value("filename_strings")) = Len(Value("file_metrics"))
  /\ cache["file_references"].status = "ok" =>
       /\ Len(Value("file_references")) = Len(Value("volumes_info"))
       /\ \A i \in 1..Len(Value("volumes_info")) :
            Value("file_references")[i] =
              PrefetchFileReferences(
                [data |-> data,
                 pos |-> Value("file_info").SectionDOffset +
                         Value("volumes_info")[i].SectionEOffset]).val
  /\ cache["directory_strings"].status = "ok" =>
       /\ Len(Value("directory_strings")) = Len(Value("volumes_info"))
       /\ \A i \in 1..Len(Value("volumes_info")) :
            Len(Value("directory_strings")[i]) =
              Value("volumes_info")[i].SectionFStringsCount

\* the reference table of the first volume failed and holds None in its
\* slot, that of the second volume was decoded and stays in the second slot
C10_Witness ==
  /\ cache["file_references"].status = "ok"
  /\ Len(Value("file_references")) = 2
  /\ Value("file_references")[1] = None
  /\ Value("file_references")[2] # None

====
